---- MODULE Spec2Model ----
(***************************************************************************)
(* A model of mvr ("move recent files"): src/mvr.py.                       *)
(*                                                                         *)
(* Strings are sequences of one-character strings, so that the stem and    *)
(* suffix of a name, the "_<n>" conflict names, glob matching and the      *)
(* ordering of paths are computed the way the code computes them.  A path  *)
(* is the sequence of its parts below the home directory: <<>> is ~,       *)
(* <<Desktop>> is ~/Desktop, <<Desktop, n>> is ~/Desktop/n.                *)
(***************************************************************************)
EXTENDS Integers, Sequences, FiniteSets, TLC

(***************************************************************************)
(* Characters, in code-point order (the order str comparison uses).        *)
(***************************************************************************)
Alphabet ==
    << "*", ".", "/", "0", "1", "2", "3", "4", "5", "6", "7", "8", "9", "?",
       "D", "S", "_",
       "a", "b", "c", "d", "e", "f", "g", "h", "i", "j", "k", "l", "m",
       "n", "o", "p", "q", "r", "s", "t", "u", "v", "w", "x", "y", "z" >>

Ord(c) == CHOOSE i \in 1..Len(Alphabet) : Alphabet[i] = c

Digits == << "0", "1", "2", "3", "4", "5", "6", "7", "8", "9" >>

\* str(counter) for counter >= 0, as the f-string of line 187 formats it.
RECURSIVE Str(_)
Str(n) ==
    IF n < 10 THEN << Digits[n + 1] >>
    ELSE Str(n \div 10) \o << Digits[(n % 10) + 1] >>

\* a < b for two strings (str.__lt__: lexicographic by code point).
RECURSIVE StrLess(_, _)
StrLess(a, b) ==
    IF b = << >> THEN FALSE
    ELSE IF a = << >> THEN TRUE
    ELSE IF Head(a) # Head(b) THEN Ord(Head(a)) < Ord(Head(b))
    ELSE StrLess(Tail(a), Tail(b))

\* str.rfind("."): the last index of a dot, 0 when there is none.
RECURSIVE RFindDot(_, _)
RFindDot(s, i) ==
    IF i = 0 THEN 0
    ELSE IF s[i] = "." THEN i
    ELSE RFindDot(s, i - 1)

\* str.lstrip(".")
RECURSIVE LStripDots(_)
LStripDots(s) ==
    IF s # << >> /\ Head(s) = "." THEN LStripDots(Tail(s)) ELSE s

\* Path.stem of a name (pathlib of the Python the script requires, 3.14).
Stem(name) ==
    LET i == RFindDot(name, Len(name))
    IN  IF i # 0 /\ LStripDots(SubSeq(name, 1, i - 1)) # << >>
        THEN SubSeq(name, 1, i - 1)
        ELSE name

\* Path.suffix of a name: the last dot of the name without its leading dots,
\* and what follows it.
Suffix(name) ==
    LET s == LStripDots(name)
        i == RFindDot(s, Len(s))
    IN  IF i = 0 THEN << >> ELSE SubSeq(s, i, Len(s))

\* fnmatch of one pattern segment against one name: "*" any run of
\* characters, "?" any one character, anything else itself.
RECURSIVE Match(_, _)
Match(p, s) ==
    IF p = << >> THEN s = << >>
    ELSE IF Head(p) = "*"
         THEN Match(Tail(p), s) \/ (s # << >> /\ Match(p, Tail(s)))
    ELSE /\ s # << >>
         /\ (Head(p) = "?" \/ Head(p) = Head(s))
         /\ Match(Tail(p), Tail(s))

\* The segments of a glob pattern, split at "/".
RECURSIVE SplitAt(_, _)
SplitAt(p, acc) ==
    IF p = << >> THEN << acc >>
    ELSE IF Head(p) = "/" THEN << acc >> \o SplitAt(Tail(p), << >>)
    ELSE SplitAt(Tail(p), Append(acc, Head(p)))

Segments(p) == SplitAt(p, << >>)

(***************************************************************************)
(* The tables of lines 21-33 and the names the model's file systems use.   *)
(***************************************************************************)
Ext(e) == << "*", "." >> \o e

PATTERNS ==
    [ scr    |-> << << "S", "c", "r", "e", "e", "n", "s", "h", "o", "t", "*" >> >>,
      images |-> << Ext(<< "j", "p", "g" >>), Ext(<< "j", "p", "e", "g" >>),
                    Ext(<< "p", "n", "g" >>), Ext(<< "g", "i", "f" >>),
                    Ext(<< "b", "m", "p" >>), Ext(<< "t", "i", "f", "f" >>),
                    Ext(<< "w", "e", "b", "p" >>), Ext(<< "h", "e", "i", "c" >>) >>,
      videos |-> << Ext(<< "m", "o", "v" >>), Ext(<< "m", "p", "4" >>),
                    Ext(<< "m", "k", "v" >>), Ext(<< "a", "v", "i" >>),
                    Ext(<< "w", "m", "v" >>), Ext(<< "f", "l", "v" >>),
                    Ext(<< "w", "e", "b", "m" >>), Ext(<< "m", "4", "v" >>) >> ]

Documents == << "D", "o", "c", "u", "m", "e", "n", "t", "s" >>
Desktop   == << "D", "e", "s", "k", "t", "o", "p" >>
Downloads == << "D", "o", "w", "n", "l", "o", "a", "d", "s" >>

\* Path.home() is the empty path of the model.
Home == << >>

DIRECTORIES ==
    [ docs    |-> << Documents >>,
      desktop |-> << Desktop >>,
      dl      |-> << Downloads >>,
      auto    |-> << Home, << Downloads >>, << Desktop >>, << Documents >> >> ]

\* A project directory below the home directory, one place the tool is run in.
Proj == << "p", "r", "o", "j" >>

ReportPdf  == << "r", "e", "p", "o", "r", "t", ".", "p", "d", "f" >>
Report1Pdf == << "r", "e", "p", "o", "r", "t", "_", "1", ".", "p", "d", "f" >>
NotesTxt   == << "n", "o", "t", "e", "s", ".", "t", "x", "t" >>
HiddenPdf  == << ".", "r", "e", "p", "o", "r", "t", ".", "p", "d", "f" >>
ShotPng    == << "S", "c", "r", "e", "e", "n", "s", "h", "o", "t", "1", ".", "p", "n", "g" >>

StarPattern == << "*" >>
PdfPattern  == Ext(<< "p", "d", "f" >>)
DeepPattern == << "*", "/", "*" >>

(***************************************************************************)
(* The state: the file system, the clock, the platform, the parsed         *)
(* options and the position of main() and of the loop of move_files.       *)
(***************************************************************************)
VARIABLES
    fs,            \* directory (a resolved path) -> name -> entry
    links,         \* directory path -> the directory it is a symbolic link to
    cwd,           \* Path.cwd(), the destination directory
    hasBirthtime,  \* whether os.stat_result has st_birthtime on this platform
    now,           \* datetime.now(), in minutes
    args,          \* the options record parse_arguments returns
    pc,            \* "idle", "moving" (inside the loop of move_files), "done"
    search_dirs,   \* main: search_dirs
    patterns,      \* main: patterns
    files,         \* main: matching_files, the files of move_files
    pos,           \* the loop of move_files is at files[pos]
    stdout,        \* the lines this run printed
    stderr,        \* the lines this run printed to sys.stderr
    attempts,      \* per candidate processed: source, destination, outcome
    fs0,           \* the file system when this run began
    scanNow,       \* the clock when this run scanned
    prev           \* the run before this one, when it was a dry run

vars == << fs, links, cwd, hasBirthtime, now, args, pc, search_dirs, patterns,
           files, pos, stdout, stderr, attempts, fs0, scanNow, prev >>

NoEntry == [ kind |-> "none" ]
DirEntry == [ kind |-> "dir" ]

Parent(path) == SubSeq(path, 1, Len(path) - 1)
Name(path) == path[Len(path)]

\* Path.resolve() of a directory path: symbolic links followed.
ResolveIn(l, path) == IF path \in DOMAIN l THEN l[path] ELSE path

Resolve(path) == ResolveIn(links, path)

\* The entry a path names in file system f.
Lookup(f, path) ==
    IF path = Home THEN DirEntry
    ELSE LET d == Resolve(Parent(path))
         IN  IF d \in DOMAIN f /\ Name(path) \in DOMAIN f[d]
             THEN f[d][Name(path)]
             ELSE NoEntry

\* Path.exists(), Path.is_file(), Path.is_dir()
Exists(f, path) == Lookup(f, path).kind # "none"
IsFile(f, path) == Lookup(f, path).kind = "file"
IsDir(f, path)  == Lookup(f, path).kind = "dir"

\* The names in a directory, as a sequence in some order (os.scandir gives
\* no order; what follows sorts).
RECURSIVE SetToSeq(_)
SetToSeq(S) ==
    IF S = {} THEN << >>
    ELSE LET e == CHOOSE e \in S : TRUE
         IN  << e >> \o SetToSeq(S \ {e})

Listing(f, directory) ==
    LET d == Resolve(directory)
    IN  IF IsDir(f, directory) /\ d \in DOMAIN f
        THEN SetToSeq(DOMAIN f[d])
        ELSE << >>

RECURSIVE Flatten(_)
Flatten(ss) == IF ss = << >> THEN << >> ELSE Head(ss) \o Flatten(Tail(ss))

\* The paths below `base` that the pattern segments `segs` match.
RECURSIVE GlobSegments(_, _, _)
GlobSegments(f, base, segs) ==
    LET here == SelectSeq(Listing(f, base), LAMBDA n : Match(Head(segs), n))
    IN  IF Len(segs) = 1
        THEN [ k \in 1..Len(here) |-> Append(base, here[k]) ]
        ELSE Flatten([ k \in 1..Len(here) |->
                         GlobSegments(f, Append(base, here[k]), Tail(segs)) ])

\* directory.glob(pattern)
Glob(f, directory, pattern) == GlobSegments(f, directory, Segments(pattern))

(***************************************************************************)
(* get_search_directories and get_patterns.                                *)
(***************************************************************************)
\* A slip: the default is the home directory.
SearchHomeByDefault(a) ==
    LET chosen ==
            IF a.auto THEN DIRECTORIES.auto
            ELSE (IF a.docs THEN << DIRECTORIES.docs >> ELSE << >>)
                 \o (IF a.desktop THEN << DIRECTORIES.desktop >> ELSE << >>)
                 \o (IF a.dl THEN << DIRECTORIES.dl >> ELSE << >>)
    IN  IF chosen = << >> THEN << Home >> ELSE chosen

get_search_directories(a) ==
    LET chosen ==
            IF a.auto THEN DIRECTORIES.auto
            ELSE (IF a.docs THEN << DIRECTORIES.docs >> ELSE << >>)
                 \o (IF a.desktop THEN << DIRECTORIES.desktop >> ELSE << >>)
                 \o (IF a.dl THEN << DIRECTORIES.dl >> ELSE << >>)
    IN  IF chosen = << >> THEN << cwd >> ELSE chosen

get_patterns(a) ==
    LET chosen ==
            (IF a.scr THEN PATTERNS.scr ELSE << >>)
            \o (IF a.images THEN PATTERNS.images ELSE << >>)
            \o (IF a.videos THEN PATTERNS.videos ELSE << >>)
            \o a.patterns
    IN  IF chosen = << >> THEN << StarPattern >> ELSE chosen

(***************************************************************************)
(* is_within_window and find_matching_files.                               *)
(***************************************************************************)
\* timedelta(minutes=minutes), in the clock's unit
Minutes(m) == m

\* A slip: the instant of the cutoff itself is left out.
After(file_time, cutoff_time) == file_time > cutoff_time

\* file_time >= cutoff_time
NotBefore(file_time, cutoff_time) == file_time >= cutoff_time

is_within_window(f, file_path, minutes) ==
    IF ~hasBirthtime THEN FALSE
    ELSE NotBefore(Lookup(f, file_path).birth, now - Minutes(minutes))

\* A slip: the paths are compared as given, not resolved.
SamePath(directory, dest_dir) == directory = dest_dir

\* directory.resolve() == dest_dir.resolve()
IsDestination(directory, dest_dir) == Resolve(directory) = Resolve(dest_dir)

\* A slip: dotfiles are not skipped.
NeverDotfile(file_path) == FALSE

\* file_path.name.startswith('.')
IsDotfile(file_path) == Name(file_path)[1] = "."

\* The paths one directory and one pattern hand to is_within_window.
Visited(f, directory, pattern) ==
    SelectSeq(Glob(f, directory, pattern),
              LAMBDA file_path : /\ IsFile(f, file_path)
                                 /\ Parent(file_path) = directory
                                 /\ ~IsDotfile(file_path))

\* Every path handed to is_within_window, in the order of the three loops.
VisitedAll(f, directories, pats, dest_dir) ==
    Flatten([ d \in 1..Len(directories) |->
        IF ~Exists(f, directories[d]) \/ IsDestination(directories[d], dest_dir)
        THEN << >>
        ELSE Flatten([ k \in 1..Len(pats) |-> Visited(f, directories[d], pats[k]) ]) ])

\* matching_files before line 166
Matching(f, directories, pats, window, dest_dir) ==
    SelectSeq(VisitedAll(f, directories, pats, dest_dir),
              LAMBDA file_path : is_within_window(f, file_path, window))

\* p < q for two paths: their lists of parts compared, part by part.
RECURSIVE PathLess(_, _)
PathLess(p, q) ==
    IF q = << >> THEN FALSE
    ELSE IF p = << >> THEN TRUE
    ELSE IF Head(p) # Head(q) THEN StrLess(Head(p), Head(q))
    ELSE PathLess(Tail(p), Tail(q))

RECURSIVE SortPaths(_)
SortPaths(S) ==
    IF S = {} THEN << >>
    ELSE LET least == CHOOSE p \in S : \A q \in S \ {p} : PathLess(p, q)
         IN  << least >> \o SortPaths(S \ {least})

\* A slip: the list is returned as it was appended to.
AsAppended(matching_files) == matching_files

\* sorted(set(matching_files))
SortedSet(matching_files) ==
    SortPaths({ matching_files[k] : k \in 1..Len(matching_files) })

find_matching_files(f, directories, pats, window, dest_dir) ==
    SortedSet(Matching(f, directories, pats, window, dest_dir))

\* The warnings is_within_window prints: one per call without st_birthtime.
Warnings(f, directories, pats, dest_dir) ==
    IF hasBirthtime THEN << >>
    ELSE LET v == VisitedAll(f, directories, pats, dest_dir)
         IN  [ k \in 1..Len(v) |-> [ kind |-> "warning", path |-> v[k] ] ]

(***************************************************************************)
(* move_files: the destination of one candidate, and the move.             *)
(***************************************************************************)
\* The loop of lines 186-188: the first dest_dir / f"{base}_{counter}{suffix}"
\* that does not exist, counting from `counter`.
RECURSIVE FirstFree(_, _, _, _, _)
FirstFree(f, dest_dir, base, suffix, counter) ==
    LET dest_path == Append(dest_dir, base \o << "_" >> \o Str(counter) \o suffix)
    IN  IF Exists(f, dest_path)
        THEN FirstFree(f, dest_dir, base, suffix, counter + 1)
        ELSE dest_path

\* A slip: the conflict name is taken with "_1" and not looked up again.
DestPathOnce(f, file_path, dest_dir) ==
    LET dest_path == Append(dest_dir, Name(file_path))
    IN  IF Exists(f, dest_path)
        THEN Append(dest_dir, Stem(Name(dest_path)) \o << "_", "1" >>
                                  \o Suffix(Name(dest_path)))
        ELSE dest_path

\* dest_path of lines 179-188
DestPath(f, file_path, dest_dir) ==
    LET dest_path == Append(dest_dir, Name(file_path))
    IN  IF Exists(f, dest_path)
        THEN FirstFree(f, dest_dir, Stem(Name(dest_path)), Suffix(Name(dest_path)), 1)
        ELSE dest_path

\* A slip: the file is copied and the source stays.
Copied(f, src, dst) ==
    LET dd == Resolve(Parent(dst))
        e  == f[Resolve(Parent(src))][Name(src)]
    IN  [ f EXCEPT ![dd] =
            [ n \in DOMAIN f[dd] \cup {Name(dst)} |->
                IF n = Name(dst) THEN e ELSE f[dd][n] ] ]

\* The file system after shutil.move(src, dst) renamed src to dst.
Renamed(f, src, dst) ==
    LET sd == Resolve(Parent(src))
        dd == Resolve(Parent(dst))
        e  == f[sd][Name(src)]
        without == [ f EXCEPT ![sd] = [ n \in DOMAIN f[sd] \ {Name(src)} |-> f[sd][n] ] ]
    IN  [ without EXCEPT ![dd] =
            [ n \in DOMAIN without[dd] \cup {Name(dst)} |->
                IF n = Name(dst) THEN e ELSE without[dd][n] ] ]

(***************************************************************************)
(* The initial states: a directory layout, a set of files, a command line. *)
(***************************************************************************)
\* The clock when the first run starts, and how many minutes it may advance.
Epoch == 100
MaxTick == 2

\* --window's default (line 65)
DefaultWindow == 5

Windows == { DefaultWindow, 3 * DefaultWindow }

TopDirs == { << Desktop >>, << Documents >>, << Downloads >>, << Proj >> }

NoLinks == [ p \in {} |-> p ]

\* Where the tool is run, which directories are symbolic links, which are
\* missing.
Layouts ==
    { [ cwd |-> << Proj >>,    links |-> NoLinks, missing |-> {} ],
      [ cwd |-> << Desktop >>, links |-> NoLinks, missing |-> {} ],
      [ cwd |-> << Proj >>,    links |-> (<< Documents >> :> << Proj >>), missing |-> {} ],
      [ cwd |-> << Proj >>,    links |-> (<< Documents >> :> << Desktop >>), missing |-> {} ],
      [ cwd |-> << Proj >>,    links |-> NoLinks, missing |-> { << Downloads >> } ] }

File(dir, name, content, age) ==
    [ dir |-> dir, name |-> name, content |-> content, birth |-> Epoch - age ]

\* Files every initial file system holds when their directory exists: an old
\* one, a hidden one, one created exactly --window's default ago, one created
\* twice that ago.
AlwaysFiles ==
    { File(<< Desktop >>, NotesTxt, "notes", 12 * DefaultWindow),
      File(<< Desktop >>, HiddenPdf, "hidden", 1),
      File(<< Documents >>, ReportPdf, "documents report", DefaultWindow),
      File(<< Desktop >>, ShotPng, "shot", 2 * DefaultWindow) }

\* Files an initial file system may hold.
OptionalFiles ==
    { File(<< Desktop >>, ReportPdf, "desktop report", 1),
      File(<< Proj >>, ReportPdf, "project report", 1),
      File(Home, Report1Pdf, "home report", 1) }

\* The files of `chosen` whose directory exists.
Placed(lay, chosen) == { x \in chosen : x.dir \notin lay.missing }

\* No two files are at one resolved path.
Placeable(lay, chosen) ==
    \A x, y \in chosen :
        (ResolveIn(lay.links, x.dir) = ResolveIn(lay.links, y.dir) /\ x.name = y.name)
            => x = y

FileEntry(x) == [ kind |-> "file", content |-> x.content, birth |-> x.birth ]

BuildFs(lay, chosen) ==
    LET real == ({ Home } \cup TopDirs) \ (DOMAIN lay.links \cup lay.missing)
        inDir(d) == { x \in chosen : ResolveIn(lay.links, x.dir) = d }
        subdirs(d) == IF d = Home THEN { t[1] : t \in TopDirs \ lay.missing } ELSE {}
    IN  [ d \in real |->
            [ n \in { x.name : x \in inDir(d) } \cup subdirs(d) |->
                IF n \in subdirs(d) THEN DirEntry
                ELSE FileEntry(CHOOSE x \in inDir(d) : x.name = n) ] ]

DirFlags ==
    { [ auto |-> FALSE, docs |-> FALSE, desktop |-> FALSE, dl |-> FALSE ],
      [ auto |-> TRUE,  docs |-> FALSE, desktop |-> FALSE, dl |-> FALSE ],
      [ auto |-> FALSE, docs |-> TRUE,  desktop |-> TRUE,  dl |-> TRUE ] }

PatternFlags ==
    { [ scr |-> FALSE, images |-> FALSE, videos |-> FALSE, patterns |-> << >> ],
      [ scr |-> TRUE,  images |-> TRUE,  videos |-> TRUE,
        patterns |-> << PdfPattern >> ],
      [ scr |-> FALSE, images |-> FALSE, videos |-> FALSE,
        patterns |-> << DeepPattern, PdfPattern, StarPattern >> ] }

CommandLines ==
    { [ auto |-> d.auto, docs |-> d.docs, desktop |-> d.desktop, dl |-> d.dl,
        scr |-> p.scr, images |-> p.images, videos |-> p.videos,
        patterns |-> p.patterns, window |-> w, dr |-> FALSE ] :
      d \in DirFlags, p \in PatternFlags, w \in Windows }

NoPrev == [ valid |-> FALSE, files |-> << >>, stdout |-> << >>, scanNow |-> 0 ]

\* The state before the tool is started: layout `lay`, the files `chosen`,
\* the command line `a`, creation times readable or not.
InitWith(lay, chosen, a, hb) ==
    /\ Placeable(lay, Placed(lay, AlwaysFiles \cup chosen))
    /\ fs = BuildFs(lay, Placed(lay, AlwaysFiles \cup chosen))
    /\ links = lay.links
    /\ cwd = lay.cwd
    /\ hasBirthtime = hb
    /\ now = Epoch
    /\ args = a
    /\ pc = "idle"
    /\ search_dirs = << >>
    /\ patterns = << >>
    /\ files = << >>
    /\ pos = 1
    /\ stdout = << >>
    /\ stderr = << >>
    /\ attempts = << >>
    /\ fs0 = fs
    /\ scanNow = now
    /\ prev = NoPrev

\* Every layout, set of files and command line on a platform with creation
\* times; without them, every layout and command line on the files that are
\* always there.
Init ==
    \E lay \in Layouts, chosen \in SUBSET OptionalFiles, a \in CommandLines,
       hb \in BOOLEAN :
        /\ hb \/ chosen = {}
        /\ InitWith(lay, chosen, a, hb)

(***************************************************************************)
(* main(): the scan, then the loop of move_files one candidate at a time.  *)
(***************************************************************************)
\* A slip: the flag is not looked at.
DryRunIgnored == FALSE

\* if dry_run (line 190)
DryRun == args.dr

\* A slip: a move that raised ends the loop.
AbortBatch(k) == Len(files) + 1

\* The loop goes on to the next candidate after a move that raised.
AfterError(k) == k + 1

AtEnd(k) == IF k > Len(files) THEN "done" ELSE "moving"

Attempt(src, dst, outcome) ==
    [ src |-> src, dst |-> dst, outcome |-> outcome,
      existed |-> Exists(fs, dst),
      taken |-> DOMAIN fs[Resolve(cwd)] ]

\* find_matching_files(directories, pats, a.window, cwd), and move_files on
\* its result up to the loop: lines 214-217 and 172-176.
ScanThenEnterLoop(a, directories, pats) ==
    LET dest_dir == cwd
    IN  /\ args' = a
        /\ search_dirs' = directories
        /\ patterns' = pats
        /\ files' = find_matching_files(fs, search_dirs', patterns', args'.window,
                                        dest_dir)
        /\ stderr' = Warnings(fs, search_dirs', patterns', dest_dir)
        /\ stdout' = IF files' = << >>
                     THEN << [ kind |-> "no matching files" ] >>
                     ELSE << [ kind |-> "found", count |-> Len(files') ] >>
        /\ pc' = IF files' = << >> THEN "done" ELSE "moving"
        /\ pos' = 1
        /\ attempts' = << >>
        /\ fs0' = fs
        /\ scanNow' = now
        /\ prev' = IF pc = "done" /\ args.dr
                   THEN [ valid |-> TRUE, files |-> files, stdout |-> stdout,
                          scanNow |-> scanNow ]
                   ELSE NoPrev
        /\ UNCHANGED << fs, links, cwd, hasBirthtime, now >>

\* main() up to the loop of move_files, run with or without --dr: the first
\* run, or the run that follows a dry run.
Start(dr) ==
    /\ pc = "idle" \/ (pc = "done" /\ args.dr)
    /\ ScanThenEnterLoop([ args EXCEPT !.dr = dr ],
                         get_search_directories([ args EXCEPT !.dr = dr ]),
                         get_patterns([ args EXCEPT !.dr = dr ]))

\* One candidate of a dry run: the line of line 191.
WouldMove ==
    LET file_path == files[pos]
        dest_path == DestPath(fs, file_path, cwd)
    IN  /\ pc = "moving"
        /\ DryRun
        /\ stdout' = Append(stdout, [ kind |-> "would move", src |-> file_path,
                                      dst |-> dest_path ])
        /\ attempts' = Append(attempts, Attempt(file_path, dest_path, "dry"))
        /\ pos' = pos + 1
        /\ pc' = AtEnd(pos + 1)
        /\ UNCHANGED << fs, links, cwd, hasBirthtime, now, args, search_dirs,
                        patterns, files, stderr, fs0, scanNow, prev >>

\* One candidate moved: shutil.move returned.
Moved ==
    LET file_path == files[pos]
        dest_path == DestPath(fs, file_path, cwd)
    IN  /\ pc = "moving"
        /\ ~DryRun
        /\ Exists(fs, file_path)
        /\ fs' = Renamed(fs, file_path, dest_path)
        /\ stdout' = Append(stdout, [ kind |-> "moved", src |-> file_path,
                                      dst |-> dest_path ])
        /\ attempts' = Append(attempts, Attempt(file_path, dest_path, "moved"))
        /\ pos' = pos + 1
        /\ pc' = AtEnd(pos + 1)
        /\ UNCHANGED << links, cwd, hasBirthtime, now, args, search_dirs,
                        patterns, files, stderr, fs0, scanNow, prev >>

\* One candidate not moved: shutil.move raised (the source is gone, or the
\* operating system refused), and the handler of line 196 printed the error.
MoveFailed ==
    LET file_path == files[pos]
        dest_path == DestPath(fs, file_path, cwd)
    IN  /\ pc = "moving"
        /\ ~DryRun
        /\ stderr' = Append(stderr, [ kind |-> "error", path |-> file_path ])
        /\ attempts' = Append(attempts, Attempt(file_path, dest_path, "error"))
        /\ pos' = AfterError(pos)
        /\ pc' = AtEnd(AfterError(pos))
        /\ UNCHANGED << fs, links, cwd, hasBirthtime, now, args, search_dirs,
                        patterns, files, stdout, fs0, scanNow, prev >>

\* Time passes between a dry run and the run that follows it.
Tick ==
    /\ pc = "done"
    /\ args.dr
    /\ now < Epoch + MaxTick
    /\ now' = now + 1
    /\ UNCHANGED << fs, links, cwd, hasBirthtime, args, pc, search_dirs, patterns,
                    files, pos, stdout, stderr, attempts, fs0, scanNow,
                    prev >>

Next ==
    \/ \E dr \in BOOLEAN : Start(dr)
    \/ WouldMove
    \/ Moved
    \/ MoveFailed
    \/ Tick

Spec == Init /\ [][Next]_vars

(***************************************************************************)
(* find_matching_files and move_files called on any lists: one call of     *)
(* find_matching_files with a list of directories and a list of patterns   *)
(* (either may repeat or overlap), and move_files on what it returns.      *)
(***************************************************************************)
Lists(S) == { << x >> : x \in S } \cup { << x, y >> : x \in S, y \in S }

DirectoryLists == Lists({ Home, << Desktop >>, << Documents >>, << Proj >> })

PatternLists == Lists({ StarPattern, PdfPattern })

PlainLine ==
    [ auto |-> FALSE, docs |-> FALSE, desktop |-> FALSE, dl |-> FALSE,
      scr |-> FALSE, images |-> FALSE, videos |-> FALSE, patterns |-> << >>,
      window |-> DefaultWindow, dr |-> FALSE ]

InitCall ==
    \E lay \in Layouts, chosen \in SUBSET OptionalFiles :
        InitWith(lay, chosen, PlainLine, TRUE)

Call(directories, pats, window) ==
    /\ pc = "idle"
    /\ ScanThenEnterLoop([ args EXCEPT !.window = window ], directories, pats)

NextCall ==
    \/ \E directories \in DirectoryLists, pats \in PatternLists, window \in Windows :
          Call(directories, pats, window)
    \/ Moved
    \/ MoveFailed

CallSpec == InitCall /\ [][NextCall]_vars

(***************************************************************************)
(* The properties.                                                         *)
(***************************************************************************)
\* The name line 187 builds for counter k.
ConflictName(name, k) == Stem(name) \o << "_" >> \o Str(k) \o Suffix(name)

\* The names in the destination directory of file system f.
DestNames(f) == DOMAIN f[Resolve(cwd)]

Moves == { k \in 1..Len(attempts) : attempts[k].outcome = "moved" }

\* C1: every destination path move_files computes, in a dry run or not, did
\* not exist when it was computed; it is cwd/<name> when that is free, and
\* otherwise cwd/<stem>_<n><suffix> for the least n >= 1 that is free; so no
\* move of a batch targets a name the destination held before the batch or
\* an earlier move of the batch created.
C1_DestinationIsFree ==
    \A k \in 1..Len(attempts) :
        LET a == attempts[k]
            name == Name(a.src)
        IN  /\ ~a.existed
            /\ Parent(a.dst) = cwd
            /\ IF name \notin a.taken
               THEN Name(a.dst) = name
               ELSE \E n \in 1..(Cardinality(a.taken) + 1) :
                      /\ Name(a.dst) = ConflictName(name, n)
                      /\ ConflictName(name, n) \notin a.taken
                      /\ \A m \in 1..(n - 1) : ConflictName(name, m) \in a.taken
            /\ (a.outcome = "moved") =>
                  /\ Name(a.dst) \notin DestNames(fs0)
                  /\ \A j \in Moves : j < k => attempts[j].dst # a.dst

\* C1's case: a move whose name and whose "_1" name were both taken.
C1_Witness ==
    \E k \in Moves :
        /\ Name(attempts[k].src) \in attempts[k].taken
        /\ ConflictName(Name(attempts[k].src), 1) \in attempts[k].taken

\* C3: in a batch that is not a dry run the candidates are attempted once
\* each, in the order of the list; a move that fails is reported on stderr
\* and the loop goes on with the next candidate: inside the loop the position
\* is one past the attempts made and within the list, and the run is done
\* only when every candidate has been attempted.
C3_EveryCandidateAttemptedOnce ==
    (pc # "idle" /\ ~args.dr) =>
        /\ Len(attempts) <= Len(files)
        /\ \A k \in 1..Len(attempts) : attempts[k].src = files[k]
        /\ pc = "moving" => (Len(attempts) = pos - 1 /\ pos <= Len(files))
        /\ pc = "done" => Len(attempts) = Len(files)
        /\ LET failed == SelectSeq(attempts, LAMBDA a : a.outcome = "error")
           IN  SelectSeq(stderr, LAMBDA l : l.kind = "error")
                 = [ k \in 1..Len(failed) |-> [ kind |-> "error", path |-> failed[k].src ] ]

\* C3's case: the first move failed, a later one was made, the batch is done.
C3_Witness ==
    /\ pc = "done"
    /\ ~args.dr
    /\ Len(attempts) >= 3
    /\ attempts[1].outcome = "error"
    /\ attempts[2].outcome = "moved"
    /\ attempts[3].outcome = "error"

\* The files of file system f, as pairs of resolved directory and name.
FilesOf(f) ==
    { << d, n >> \in UNION { { << d, n >> : n \in DOMAIN f[d] } : d \in DOMAIN f } :
        f[d][n].kind = "file" }

\* How many files of file system f hold content c.
Copies(f, c) == Cardinality({ x \in FilesOf(f) : f[x[1]][x[2]].content = c })

ContentsOf(f) == { f[x[1]][x[2]].content : x \in FilesOf(f) }

\* The candidates of the previous list that are still within the window.
StillRecent(listed) ==
    SelectSeq(listed, LAMBDA p : Lookup(fs, p).birth + args.window >= scanNow)

\* C2 as stated: a dry run changes nothing in the file system, and a second
\* dry run in a row lists the candidates the first one listed.
C2_DryRunsListTheSame ==
    /\ (pc # "idle" /\ args.dr) => fs = fs0
    /\ (pc # "idle" /\ args.dr /\ prev.valid) => files = prev.files

\* C2, amended: a dry run changes nothing in the file system, and a second
\* dry run in a row lists the candidates of the first one that are still
\* within the window at the second scan: the same list when the clock has
\* not passed the window of any of them.
C2_DryRunsListTheStillRecent ==
    /\ (pc # "idle" /\ args.dr) => fs = fs0
    /\ (pc # "idle" /\ args.dr /\ prev.valid) =>
          /\ files = StillRecent(prev.files)
          /\ scanNow = prev.scanNow => files = prev.files

\* C2's case: two dry runs in a row, both with candidates, the clock having
\* advanced between them, the second one done.
C2_Witness ==
    /\ pc = "done"
    /\ args.dr
    /\ prev.valid
    /\ scanNow > prev.scanNow
    /\ Len(prev.files) >= 2
    /\ files # << >>
    /\ Len(attempts) = Len(files)

\* C5: when a batch that is not a dry run is done, every candidate that was
\* moved is gone from its source path and is at its computed destination
\* with the content (and the entry) it had; and at every moment every file
\* content the file system held when the run began is held exactly as many
\* times as then: nothing is lost, overwritten or duplicated.
C5_MovesPreserveFiles ==
    (pc # "idle" /\ ~args.dr) =>
        /\ ContentsOf(fs) = ContentsOf(fs0)
        /\ \A c \in ContentsOf(fs0) : Copies(fs, c) = Copies(fs0, c)
        /\ pc = "done" =>
              \A k \in Moves :
                  /\ ~Exists(fs, attempts[k].src)
                  /\ IsFile(fs, attempts[k].dst)
                  /\ Lookup(fs, attempts[k].dst) = Lookup(fs0, attempts[k].src)

\* C5's case: a batch is done in which two files of the same name were
\* moved, the second one under a conflict name.
C5_Witness ==
    /\ pc = "done"
    /\ ~args.dr
    /\ \E j, k \in Moves :
          /\ j < k
          /\ Name(attempts[j].src) = Name(attempts[k].src)
          /\ Name(attempts[k].dst) # Name(attempts[k].src)

\* The paths of a sequence.
Range(seq) == { seq[k] : k \in 1..Len(seq) }

\* Whether some pattern of the run matches a name directly in a directory.
SomePatternMatches(name) ==
    \E k \in 1..Len(patterns) :
        Len(Segments(patterns[k])) = 1 /\ Match(patterns[k], name)

\* The resolved directories the run searched: those that exist and are not
\* the destination.
Searched ==
    { Resolve(search_dirs[k]) : k \in 1..Len(search_dirs) }
        \ ({ Resolve(cwd) } \cup { d \in TopDirs : d \notin DOMAIN fs0 })

\* Whether the entry `name` of resolved directory d fails a filter of the scan
\* of this run.
FailsAFilter(d, name) ==
    LET e == fs0[d][name]
    IN  \/ e.kind # "file"
        \/ name[1] = "."
        \/ ~SomePatternMatches(name)
        \/ d \notin Searched
        \/ ~hasBirthtime
        \/ e.birth < scanNow - args.window

\* The scenario of C6: the destination holds report.pdf and no report_1.pdf,
\* ~/Desktop holds report.pdf created a minute ago and notes.txt created an
\* hour ago, the run has window 5 and pattern *, and searches ~/Desktop.
Scenario ==
    /\ IsFile(fs0, Append(cwd, ReportPdf))
    /\ ~Exists(fs0, Append(cwd, Report1Pdf))
    /\ IsFile(fs0, << Desktop, ReportPdf >>)
    /\ Lookup(fs0, << Desktop, ReportPdf >>).birth = scanNow - 1
    /\ IsFile(fs0, << Desktop, NotesTxt >>)
    /\ Lookup(fs0, << Desktop, NotesTxt >>).birth <= scanNow - 60
    /\ args.window = 5
    /\ patterns = << StarPattern >>
    /\ << Desktop >> \in Range(search_dirs)
    /\ Resolve(<< Desktop >>) # Resolve(cwd)
    /\ hasBirthtime

\* C6: a run moves only candidates: an entry that fails a filter of the scan
\* (not a regular file, a dotfile, matched by no pattern, not directly in a
\* searched directory, created before the cutoff) and every entry of the
\* destination directory is where it was, unchanged, all through the run; and
\* in the scenario of the claim ~/Desktop/report.pdf is moved to report_1.pdf
\* while notes.txt and the destination's report.pdf stay untouched.
C6_OnlyCandidatesMove ==
    pc # "idle" =>
        /\ \A d \in DOMAIN fs0 : \A name \in DOMAIN fs0[d] :
              (FailsAFilter(d, name) \/ d = Resolve(cwd)) =>
                  /\ d \in DOMAIN fs
                  /\ name \in DOMAIN fs[d]
                  /\ fs[d][name] = fs0[d][name]
        /\ Scenario =>
              /\ files[1] = << Desktop, ReportPdf >>
              /\ << Desktop, NotesTxt >> \notin Range(files)
              /\ \A k \in Moves :
                    attempts[k].src = << Desktop, ReportPdf >> =>
                        /\ attempts[k].dst = Append(cwd, Report1Pdf)
                        /\ Lookup(fs, Append(cwd, Report1Pdf))
                             = Lookup(fs0, << Desktop, ReportPdf >>)
                        /\ ~Exists(fs, << Desktop, ReportPdf >>)
              /\ Lookup(fs, << Desktop, NotesTxt >>) = Lookup(fs0, << Desktop, NotesTxt >>)
              /\ Lookup(fs, Append(cwd, ReportPdf)) = Lookup(fs0, Append(cwd, ReportPdf))

\* C6's case: the scenario, with report.pdf the only candidate, moved, and the
\* run done.
C6_Witness ==
    /\ pc = "done"
    /\ ~args.dr
    /\ Scenario
    /\ files = << << Desktop, ReportPdf >> >>
    /\ Moves = { 1 }
    /\ IsFile(fs, Append(cwd, Report1Pdf))

\* The paths the scan of this run handed to is_within_window: regular files,
\* not dotfiles, directly in a searched directory, matched by a pattern.
Examined ==
    UNION { { Append(search_dirs[k], name) :
                name \in { n \in DOMAIN fs0[Resolve(search_dirs[k])] :
                             /\ fs0[Resolve(search_dirs[k])][n].kind = "file"
                             /\ n[1] # "."
                             /\ SomePatternMatches(n) } } :
            k \in { j \in 1..Len(search_dirs) :
                      /\ Exists(fs0, search_dirs[j])
                      /\ Resolve(search_dirs[j]) # Resolve(cwd) } }

\* C7: a file whose creation time can be read is a candidate if and only if
\* it was created no earlier than the scan's clock minus the window, the
\* boundary included; ten minutes old, it is out with window 5 and in with
\* window 15; and where creation times cannot be read no file is a candidate,
\* each examined file is warned about, and the run still completes.
C7_WindowBoundaryIncluded ==
    pc # "idle" =>
        LET examined == Examined
        IN  /\ \A p \in examined :
                  (p \in Range(files)) <=>
                      (hasBirthtime /\ scanNow - Lookup(fs0, p).birth <= args.window)
            /\ \A p \in examined :
                  (hasBirthtime /\ scanNow - Lookup(fs0, p).birth = 10) =>
                      /\ args.window = 5 => p \notin Range(files)
                      /\ args.window = 15 => p \in Range(files)
            /\ ~hasBirthtime =>
                  /\ files = << >>
                  /\ pc = "done"
                  /\ stdout = << [ kind |-> "no matching files" ] >>
                  /\ { stderr[k].path : k \in 1..Len(stderr) } = examined

\* C7's case: a candidate created exactly window minutes before the scan,
\* beside an examined file, older, that is no candidate.
C7_Witness ==
    /\ pc # "idle"
    /\ \E p \in Range(files) : scanNow - Lookup(fs0, p).birth = args.window
    /\ \E p \in Examined : scanNow - Lookup(fs0, p).birth = args.window + 5
                           /\ p \notin Range(files)

NoSelector == ~args.auto /\ ~args.docs /\ ~args.desktop /\ ~args.dl

Previewed(out) ==
    LET lines == SelectSeq(out, LAMBDA l : l.kind = "would move")
    IN  [ k \in 1..Len(lines) |-> lines[k].dst ]

\* C10: a dry run previews the moves: the destination it prints for each
\* candidate is the one a run without --dr on the same files and with the
\* same options moves that candidate to when every move succeeds, and the
\* destinations one dry run prints are pairwise distinct (stated here for the
\* layouts without symbolic links, where two candidates are two files).
C10_DryRunPreviewsTheMoves ==
    links = NoLinks =>
        /\ (pc = "done" /\ ~args.dr /\ prev.valid /\ prev.files = files
                /\ Moves = 1..Len(files)) =>
              Previewed(prev.stdout) = [ k \in 1..Len(attempts) |-> attempts[k].dst ]
        /\ (pc = "done" /\ args.dr) =>
              \A j, k \in 1..Len(attempts) :
                  j # k => attempts[j].dst # attempts[k].dst

\* C4: whatever list of directories find_matching_files is given, it returns
\* no file whose directory resolves to the path the destination directory
\* resolves to; so the source of a candidate is never its computed
\* destination, nor in the directory of its computed destination.
C4_DestinationNeverScanned ==
    pc # "idle" =>
        /\ \A p \in Range(files) : Resolve(Parent(p)) # Resolve(cwd)
        /\ \A k \in 1..Len(attempts) :
              /\ attempts[k].src # attempts[k].dst
              /\ Resolve(Parent(attempts[k].src)) # Resolve(Parent(attempts[k].dst))

\* C4's case: the list names the destination directory through a symbolic
\* link and a directory with candidates; the destination holds a file the
\* patterns and the window would take; the candidates have been processed.
C4_Witness ==
    /\ pc = "done"
    /\ files # << >>
    /\ Len(attempts) = Len(files)
    /\ \E k \in 1..Len(search_dirs) :
          /\ search_dirs[k] # cwd
          /\ Resolve(search_dirs[k]) = Resolve(cwd)
    /\ \E name \in DOMAIN fs0[Resolve(cwd)] :
          /\ fs0[Resolve(cwd)][name].kind = "file"
          /\ name[1] # "."
          /\ SomePatternMatches(name)
          /\ scanNow - fs0[Resolve(cwd)][name].birth <= args.window

\* How often a path is in a list.
Count(seq, p) == Cardinality({ k \in 1..Len(seq) : seq[k] = p })

\* C8: for every list of directories and every list of patterns, repeated or
\* overlapping, the list find_matching_files returns is in strictly ascending
\* order of path, so holds no path twice; every path the loops appended, once
\* or several times, is in it exactly once; and move_files processes the
\* candidates in the order of the list.
C8_SortedWithoutDuplicates ==
    pc # "idle" =>
        /\ \A j, k \in 1..Len(files) : j < k => PathLess(files[j], files[k])
        /\ \A j, k \in 1..Len(files) : j # k => files[j] # files[k]
        /\ \A p \in Range(Matching(fs0, search_dirs, patterns, args.window, cwd)) :
              Count(files, p) = 1
        /\ \A k \in 1..Len(attempts) : attempts[k].src = files[k]

\* C8's case: a directory given twice and patterns that overlap, so that the
\* loops appended more paths than the list holds, and a list of at least two
\* candidates, all processed.
C8_Witness ==
    /\ pc = "done"
    /\ Len(search_dirs) = 2
    /\ search_dirs[1] = search_dirs[2]
    /\ Len(files) >= 2
    /\ Len(Matching(fs0, search_dirs, patterns, args.window, cwd)) >= 4 * Len(files)
    /\ Len(attempts) = Len(files)

====
